---- MODULE Spec2Model ----
(***************************************************************************)
(* Model of the PDF chat widget (ResizableChatBot / ChatBot and the        *)
(* floating launcher button).  One widget instance: the React state of the *)
(* component, the document-level mouse listeners registered by the resize  *)
(* handle, the handleSubmit invocations that are suspended at an await,    *)
(* and the notifications handed to the toast collaborator.                 *)
(*                                                                         *)
(* Text is modelled as a sequence of tokens; the text denoted is the       *)
(* concatenation of the tokens.  A fixed text of the program is one token, *)
(* a decimal digit is one token, a blank is one token.                     *)
(***************************************************************************)
EXTENDS Integers, Sequences, FiniteSets, TLC

VARIABLES
    messages,      \* useState<Message[]>: the transcript
    input,         \* useState(""): text of the input control
    isProcessing,  \* useState(false)
    isExpanded,    \* useState(false)
    chatHeight,    \* useState(400)
    isResizing,    \* useState(false)
    startY,        \* startYRef.current
    startHeight,   \* startHeightRef.current
    listeners,     \* mousemove/mouseup listener pairs registered on document
    isVisible,     \* prop isVisible, owned by the parent page
    apiKey,        \* import.meta.env.VITE_GROQ_API_KEY
    ocrText,       \* prop ocrText
    inflight,      \* handleSubmit invocations suspended at an await
    sent,          \* request bodies handed to fetch, in order
    toasts,        \* toast calls of the latest handleSubmit run that notified
    loadingToastShown, \* the loading toast is on screen
    outcome,       \* how the latest handleSubmit step ended
    settled        \* how the latest run settled: the await that ended it, the status

vars == <<messages, input, isProcessing, isExpanded, chatHeight, isResizing,
          startY, startHeight, listeners, isVisible, apiKey, ocrText,
          inflight, sent, toasts, loadingToastShown, outcome, settled>>

pipelineVars == <<messages, input, isProcessing, inflight, sent, toasts,
                  loadingToastShown, outcome, settled>>
resizeVars == <<chatHeight, isResizing, startY, startHeight>>

----------------------------------------------------------------------------
(* Bounds of the exploration *)

MaxSubmits == 2      \* accepted submissions per behaviour
MaxListeners == 2    \* listener pairs registered at the same time

----------------------------------------------------------------------------
(* Text *)

SP == " "

IsWhitespace(t) == t = SP

RECURSIVE TrimStart(_)
TrimStart(s) ==
    IF s = <<>> THEN s
    ELSE IF IsWhitespace(Head(s)) THEN TrimStart(Tail(s)) ELSE s

RECURSIVE TrimEnd(_)
TrimEnd(s) ==
    IF s = <<>> THEN s
    ELSE IF IsWhitespace(s[Len(s)]) THEN TrimEnd(SubSeq(s, 1, Len(s) - 1)) ELSE s

\* String.prototype.trim
Trim(s) == TrimEnd(TrimStart(s))

\* String.prototype.includes
Includes(s, p) ==
    \E i \in 0..(Len(s) - Len(p)) : SubSeq(s, i + 1, i + Len(p)) = p

Digit(d) == <<"0", "1", "2", "3", "4", "5", "6", "7", "8", "9">>[d + 1]

\* Decimal rendering of a number in a template literal
RECURSIVE NumToStr(_)
NumToStr(n) ==
    IF n < 10 THEN <<Digit(n)>> ELSE Append(NumToStr(n \div 10), Digit(n % 10))

\* An optional text: a property that may be missing from a JSON object,
\* or a variable that may be undefined
Some(s) == [def |-> TRUE, v |-> s]
None == [def |-> FALSE, v |-> <<>>]
\* JavaScript truthiness of an optional text
Truthy(o) == o.def /\ o.v # <<>>

----------------------------------------------------------------------------
(* Fixed texts of the program *)

Greeting ==
    <<"Hello! I can answer questions about the PDF content. What would you like to know?">>
Sentinel == <<"Thinking...">>
RetrySuffix == <<" Please try again or rephrase your question.">>
NetworkErrorText ==
    <<"Network error. Please check your internet connection and try again.">>
AuthErrorText == <<"Authentication error. The Groq API key may be invalid.">>
RateLimitText == <<"Rate limit exceeded. Please wait a moment and try again.">>
ModelUnavailableText ==
    <<"The AI model is not available. Please try again later.">>
DefaultErrorText ==
    <<"Sorry, I encountered an error while processing your question.">>
FailedToGetText == <<"Failed to get response from AI">>
InvalidFormatText == <<"Invalid response format from API">>
EmptyResponseText == <<"Empty response from AI">>
ErrorPrefix == <<"Error: ">>
HttpPrefix == <<"HTTP ">>
ColonSpace == <<": ">>

ModelId == <<"meta-llama/llama-4-scout-17b-16e-instruct">>
SystemPromptHead ==
    <<"You are a helpful teacher ... PDF Content:\n">>
SystemPromptTail ==
    <<"\n\nREMEMBER: ALWAYS use the structured format with emoji bullets - NEVER respond in plain paragraphs!">>
TemperatureTenths == 5
MaxTokens == 2000

UserMsg(c) == [role |-> "user", content |-> c]
AssistantMsg(c) == [role |-> "assistant", content |-> c]

----------------------------------------------------------------------------
(* The remote service as the widget sees it *)

\* A response body.  json: JSON.parse of the body succeeds and property
\* access on the result does not throw.  text: the raw body when it does not.
\* errMsg is error.message, msg is message, choices is the choices array.
\* A choice is [obj |-> it is an object (not null), hasMessage |-> it has a
\* message object, content |-> message.content].
Choice(c) == [obj |-> TRUE, hasMessage |-> TRUE, content |-> c]
NullChoice == [obj |-> FALSE, hasMessage |-> FALSE, content |-> None]
NoMessageChoice == [obj |-> TRUE, hasMessage |-> FALSE, content |-> None]
NoChoices == [def |-> FALSE, v |-> <<>>]
Choices(cs) == [def |-> TRUE, v |-> cs]

TextBody(t) ==
    [json |-> FALSE, text |-> t, errMsg |-> None, msg |-> None,
     choices |-> NoChoices]
JsonBody(e, m, cs) ==
    [json |-> TRUE, text |-> <<>>, errMsg |-> e, msg |-> m, choices |-> cs]
ReplyBody(c) == JsonBody(None, None, Choices(<<Choice(Some(c))>>))

\* Response.ok
Ok(status) == status >= 200 /\ status <= 299

Statuses == {200, 401, 404, 429, 500}

ReplyTexts == {<<"Hello">>, <<SP, "Hello", SP>>, Sentinel}

Bodies ==
    {ReplyBody(c) : c \in ReplyTexts}
    \cup {ReplyBody(<<>>), ReplyBody(<<SP>>),
          JsonBody(None, None, Choices(<<Choice(None)>>)),
          JsonBody(None, None, Choices(<<NoMessageChoice>>)),
          JsonBody(None, None, Choices(<<NullChoice>>)),
          JsonBody(None, None, Choices(<<>>)),
          JsonBody(None, None, NoChoices),
          JsonBody(Some(<<"The request was refused">>), None, NoChoices),
          JsonBody(Some(<<>>), Some(<<"The request was refused">>), NoChoices),
          JsonBody(Some(<<"quota ", "4", "0", "1">>), None, NoChoices),
          TextBody(<<"Bad Gateway">>)}

Responses == [status : Statuses, body : Bodies]

\* The responses of the specification that interleaves the pipeline with
\* the panel: a reply and a server error
PanelResponses ==
    {[status |-> 200, body |-> ReplyBody(<<"Hello">>)],
     [status |-> 500, body |-> TextBody(<<"Bad Gateway">>)]}

\* Messages of the errors fetch, Response.text and Response.json reject with
\* when the transport fails (Chrome, Firefox, Safari)
RejectMessages ==
    {<<"Failed to fetch">>,
     <<"NetworkError", " when attempting to fetch resource.">>,
     <<"Load failed">>}

\* Messages of the SyntaxError Response.json rejects with on a body that is
\* not JSON; the text is the engine's
ParseErrorMessages == {<<"Unexpected token B in JSON at position 0">>}

InputTexts == {<<>>, <<SP>>, <<SP, "hi", SP>>, Sentinel}
PanelInputTexts == {<<>>, <<SP, "hi", SP>>}
PanelRejectMessages == {<<"Failed to fetch">>}
ApiKeys == {None, Some(<<>>), Some(<<"gsk_key">>)}
OcrTexts == {<<>>, <<"Page 1">>}
PointerYs == {0, 300, 700}

\* Texts with markup: an HTML element around a word, markdown emphasis
RenderInputTexts == {<<"<b>", "hi", "</b>">>, <<"**", "hi", "**">>}
RenderResponses ==
    {[status |-> 200, body |-> ReplyBody(<<"**", "bold", "**">>)],
     [status |-> 500, body |-> TextBody(<<"Bad Gateway">>)]}

----------------------------------------------------------------------------
(* handleSubmit: the pure parts *)

\* The early return with !input instead of !input.trim()
RejectsSubmitUntrimmed(inp, processing) == inp = <<>> \/ processing

\* Early return of handleSubmit
RejectsSubmit(inp, processing) == Trim(inp) = <<>> \/ processing

\* The key check as a comparison with undefined
MissingKeyUndefinedOnly(key) == ~key.def

\* !GROQ_API_KEY
MissingKey(key) == ~Truthy(key)

\* The update without setIsProcessing(true)
SubmitUpdateNoProcessing(msgs, inp) ==
    [messages |-> msgs \o <<UserMsg(Trim(inp)), AssistantMsg(Sentinel)>>,
     input |-> <<>>,
     isProcessing |-> FALSE]

\* The update with the user message built from the untrimmed input
SubmitUpdateUntrimmed(msgs, inp) ==
    [messages |-> msgs \o <<UserMsg(inp), AssistantMsg(Sentinel)>>,
     input |-> <<>>,
     isProcessing |-> TRUE]

\* The update without setInput("")
SubmitUpdateKeepsInput(msgs, inp) ==
    [messages |-> msgs \o <<UserMsg(Trim(inp)), AssistantMsg(Sentinel)>>,
     input |-> inp,
     isProcessing |-> TRUE]

\* The state handleSubmit sets before it calls fetch
SubmitUpdate(msgs, inp) ==
    [messages |-> msgs \o <<UserMsg(Trim(inp)), AssistantMsg(Sentinel)>>,
     input |-> <<>>,
     isProcessing |-> TRUE]

\* A requestBody that carries the transcript between the system message
\* and the user message
RequestBodyWithTranscript(ocr, currentInput) ==
    [model |-> ModelId,
     messages |-> <<[role |-> "system",
                     content |-> SystemPromptHead \o ocr \o SystemPromptTail]>>
                  \o messages
                  \o <<[role |-> "user", content |-> currentInput]>>,
     temperature |-> TemperatureTenths,
     max_tokens |-> MaxTokens]

\* A requestBody whose system message leaves out the text of the document
RequestBodyWithoutSource(ocr, currentInput) ==
    [model |-> ModelId,
     messages |-> <<[role |-> "system",
                     content |-> SystemPromptHead \o SystemPromptTail],
                    [role |-> "user", content |-> currentInput]>>,
     temperature |-> TemperatureTenths,
     max_tokens |-> MaxTokens]

\* requestBody
RequestBody(ocr, currentInput) ==
    [model |-> ModelId,
     messages |-> <<[role |-> "system",
                     content |-> SystemPromptHead \o ocr \o SystemPromptTail],
                    [role |-> "user", content |-> currentInput]>>,
     temperature |-> TemperatureTenths,
     max_tokens |-> MaxTokens]

\* The second argument of fetch
FetchInit(key, body) ==
    [method |-> "POST",
     authorization |-> <<"Bearer ">> \o key.v,
     contentType |-> "application/json",
     body |-> body]

\* The filter written on the role of the placeholder instead of its content
RemovePlaceholderByRole(msgs) ==
    SelectSeq(msgs, LAMBDA m : m.role # "assistant")

\* prev.filter(m => m.content !== "Thinking...")
RemovePlaceholder(msgs) == SelectSeq(msgs, LAMBDA m : m.content # Sentinel)

\* Message of the Error thrown for a response that is not ok
NonOkErrorMessage(status, body) ==
    IF body.json
    THEN IF Truthy(body.errMsg) THEN body.errMsg.v
         ELSE IF Truthy(body.msg) THEN body.msg.v
         ELSE FailedToGetText
    ELSE HttpPrefix \o NumToStr(status) \o ColonSpace \o body.text

\* The body checks without the test for a blank reply
BodyErrorMessageNoTrim(data) ==
    IF \/ ~data.choices.def
       \/ Len(data.choices.v) = 0
       \/ ~data.choices.v[1].obj
       \/ ~data.choices.v[1].hasMessage
    THEN Some(InvalidFormatText)
    ELSE IF ~Truthy(data.choices.v[1].content)
         THEN Some(EmptyResponseText)
         ELSE None

\* Message of the Error thrown for the parsed body of an ok response;
\* None when the body passes both checks
BodyErrorMessage(data) ==
    IF \/ ~data.choices.def
       \/ Len(data.choices.v) = 0
       \/ ~data.choices.v[1].obj
       \/ ~data.choices.v[1].hasMessage
    THEN Some(InvalidFormatText)
    ELSE IF \/ ~Truthy(data.choices.v[1].content)
            \/ Trim(data.choices.v[1].content.v) = <<>>
         THEN Some(EmptyResponseText)
         ELSE None

\* aiResponse
AiResponse(data) == data.choices.v[1].content.v

\* errorMessage of the catch block
ClassifyError(isError, m) ==
    IF ~isError THEN DefaultErrorText
    ELSE IF Includes(m, <<"Failed to fetch">>) \/ Includes(m, <<"NetworkError">>)
         THEN NetworkErrorText
    ELSE IF Includes(m, <<"4", "0", "1">>) THEN AuthErrorText
    ELSE IF Includes(m, <<"4", "2", "9">>) THEN RateLimitText
    ELSE IF Includes(m, <<"4", "0", "4">>) THEN ModelUnavailableText
    ELSE ErrorPrefix \o m

\* The entry without the retry suggestion
ErrorEntryNoSuffix(m) == AssistantMsg(ClassifyError(TRUE, m))

\* The transcript entry the catch block appends
ErrorEntry(m) == AssistantMsg(ClassifyError(TRUE, m) \o RetrySuffix)

\* The catch block without its filter for the placeholder
AfterFailureKeepsPlaceholder(msgs, m) == Append(msgs, ErrorEntry(m))

\* Transcript after the catch block
AfterFailure(msgs, m) == Append(RemovePlaceholder(msgs), ErrorEntry(m))

\* The success path appending the trimmed reply
AfterSuccessTrimmed(msgs, data) ==
    Append(msgs, AssistantMsg(Trim(AiResponse(data))))

\* Transcript after the success path
AfterSuccess(msgs, data) == Append(msgs, AssistantMsg(AiResponse(data)))

\* The closing notification without the dismiss of the loading toast
ClosingToastsNoDismiss(loadingToastId, kind) == <<kind>>

\* toast calls that end a run: dismiss of the loading toast when its id is
\* truthy, then the closing notification
ClosingToasts(loadingToastId, kind) ==
    (IF loadingToastId # 0 THEN <<"dismiss">> ELSE <<>>) \o <<kind>>

\* if (loadingToastId) toast.dismiss(loadingToastId): whether the loading
\* toast is still on screen afterwards
ShownAfterDismiss(loadingToastId, shown) ==
    IF loadingToastId # 0 THEN FALSE ELSE shown

----------------------------------------------------------------------------
(* The component *)

\* Response slot of a run that has not received one yet
NoResponse == [status |-> 0, body |-> TextBody(<<>>)]

NothingSettled == [how |-> "none", status |-> 0]

\* The form, the resize handle and the header buttons are rendered
PanelShown == isVisible /\ isExpanded

\* disabled={isProcessing} on the input control
InputDisabled == isProcessing

\* No effect on [isVisible]: isExpanded is left as it is
NoVisibilityEffect(visible, expanded) == expanded

\* useEffect on [isVisible]: the value of isExpanded after it ran
VisibilityEffect(visible, expanded) ==
    IF visible /\ ~expanded THEN TRUE ELSE expanded

\* The page's handler behind onToggle and behind the launcher's onClick
OnToggle(visible) == ~visible

\* A render that unregisters the listeners of the render before it
RerenderedUnregistering(ls) == SubSeq(ls, 1, 0)

\* A render makes new handler functions: no registered listener is a
\* handler of the current render any more
Rerendered(ls) == [i \in 1..Len(ls) |-> [ls[i] EXCEPT !.cur = FALSE]]

RemoveAt(seq, i) == SubSeq(seq, 1, i - 1) \o SubSeq(seq, i + 1, Len(seq))

\* Math.max(200, Math.min(600, startHeightRef.current + deltaY))
MinHeight == 200
MaxHeight == 600
DefaultHeight == 400
Min(a, b) == IF a < b THEN a ELSE b
Max(a, b) == IF a > b THEN a ELSE b

\* startHeightRef.current + deltaY without the clamp
NewHeightUnclamped(sh, sy, y) == sh + (sy - y)

NewHeight(sh, sy, y) == Max(MinHeight, Min(MaxHeight, sh + (sy - y)))

Init ==
    /\ messages = <<AssistantMsg(Greeting)>>
    /\ input = <<>>
    /\ isProcessing = FALSE
    /\ isVisible \in BOOLEAN
    /\ isExpanded = VisibilityEffect(isVisible, FALSE)
    /\ chatHeight = DefaultHeight
    /\ isResizing = FALSE
    /\ startY = 0
    /\ startHeight = 0
    /\ listeners = <<>>
    /\ apiKey \in ApiKeys
    /\ ocrText \in OcrTexts
    /\ inflight = <<>>
    /\ sent = <<>>
    /\ toasts = <<>>
    /\ loadingToastShown = FALSE
    /\ outcome = "none"
    /\ settled = NothingSettled

(* Message render *)

\* Tokens the HTML parser reads as tags; "**" is the markdown delimiter of
\* strong emphasis
HtmlTags == {"<b>", "</b>", "<strong>", "</strong>", "<p>", "</p>"}
Strong == "**"

\* marked.parse on one paragraph: a pair of "**" becomes a strong element,
\* a "**" without a partner stays text, inline HTML is passed through
RECURSIVE MarkedInline(_, _)
MarkedInline(s, open) ==
    IF s = <<>> THEN <<>>
    ELSE IF Head(s) = Strong /\ open
         THEN <<"</strong>">> \o MarkedInline(Tail(s), FALSE)
    ELSE IF Head(s) = Strong /\ Includes(Tail(s), <<Strong>>)
         THEN <<"<strong>">> \o MarkedInline(Tail(s), TRUE)
    ELSE <<Head(s)>> \o MarkedInline(Tail(s), open)

Marked(content) == <<"<p>">> \o MarkedInline(content, FALSE) \o <<"</p>">>

\* What the browser makes of a string assigned as innerHTML: the tags
\* become elements, the rest is the text shown
InnerHTML(html) ==
    [kind |-> "html",
     text |-> SelectSeq(html, LAMBDA t : t \notin HtmlTags),
     elements |-> SelectSeq(html, LAMBDA t : t \in HtmlTags)]

\* The bubble of one transcript entry
Rendered(message) ==
    IF message.content = Sentinel
    THEN [kind |-> "animation", text |-> <<"Thinking">>, elements |-> <<>>]
    ELSE InnerHTML(IF message.role = "assistant"
                   THEN Marked(message.content)
                   ELSE message.content)

(* Input control *)

\* onChange of the input control
InputChange(t) ==
    /\ PanelShown
    /\ ~InputDisabled
    /\ t # input
    /\ input' = t
    /\ listeners' = Rerendered(listeners)
    /\ UNCHANGED <<messages, isProcessing, isExpanded, resizeVars, isVisible,
                   apiKey, ocrText, inflight, sent, toasts, loadingToastShown,
                   outcome, settled>>

(* handleSubmit, up to the call of fetch *)

\* Early return: nothing to send, or a run is in progress
SubmitIgnored ==
    /\ PanelShown
    /\ RejectsSubmit(input, isProcessing)
    /\ outcome' = "ignored"
    /\ UNCHANGED <<messages, input, isProcessing, isExpanded, resizeVars,
                   listeners, isVisible, apiKey, ocrText, inflight, sent,
                   toasts, loadingToastShown, settled>>

\* Early return: no API key
SubmitNoKey ==
    /\ PanelShown
    /\ ~RejectsSubmit(input, isProcessing)
    /\ MissingKey(apiKey)
    /\ toasts' = <<"config-error">>
    /\ outcome' = "nokey"
    /\ UNCHANGED <<messages, input, isProcessing, isExpanded, resizeVars,
                   listeners, isVisible, apiKey, ocrText, inflight, sent,
                   loadingToastShown, settled>>

\* The run appends the user message and the placeholder, shows the loading
\* toast and calls fetch
SubmitAccepted ==
    /\ PanelShown
    /\ ~RejectsSubmit(input, isProcessing)
    /\ ~MissingKey(apiKey)
    /\ Len(sent) < MaxSubmits
    /\ LET u == SubmitUpdate(messages, input)
           currentInput == Trim(input)
       IN /\ messages' = u.messages
          /\ input' = u.input
          /\ isProcessing' = u.isProcessing
          /\ sent' = Append(sent,
                FetchInit(apiKey, RequestBody(ocrText, currentInput)))
          /\ inflight' = Append(inflight,
                [pc |-> "fetch", currentInput |-> currentInput,
                 loadingToastId |-> Len(sent) + 1, response |-> NoResponse,
                 typed |-> input, prev |-> messages])
    /\ toasts' = <<"loading">>
    /\ loadingToastShown' = TRUE
    /\ outcome' = "accepted"
    /\ settled' = NothingSettled
    /\ listeners' = Rerendered(listeners)
    /\ UNCHANGED <<isExpanded, resizeVars, isVisible, apiKey, ocrText>>

\* The 15 s duration of the loading toast runs out: the toast collaborator
\* takes the toast off the screen, the component is not called
LoadingToastExpires ==
    /\ loadingToastShown
    /\ loadingToastShown' = FALSE
    /\ UNCHANGED <<messages, input, isProcessing, isExpanded, resizeVars,
                   listeners, isVisible, apiKey, ocrText, inflight, sent,
                   toasts, outcome, settled>>

(* handleSubmit, after the awaits *)

\* The catch block without the finally block
CatchWithoutFinally(i, m) ==
    /\ messages' = AfterFailure(messages, m)
    /\ toasts' = toasts \o ClosingToasts(inflight[i].loadingToastId, "error")
    /\ loadingToastShown' =
           ShownAfterDismiss(inflight[i].loadingToastId, loadingToastShown)
    /\ isProcessing' = isProcessing
    /\ inflight' = RemoveAt(inflight, i)
    /\ outcome' = "failure"
    /\ listeners' = Rerendered(listeners)
    /\ UNCHANGED <<input, isExpanded, resizeVars, isVisible, apiKey, ocrText,
                   sent>>

\* catch and finally of run i, for an Error with message m
CatchFinally(i, m) ==
    /\ messages' = AfterFailure(messages, m)
    /\ toasts' = toasts \o ClosingToasts(inflight[i].loadingToastId, "error")
    /\ loadingToastShown' =
           ShownAfterDismiss(inflight[i].loadingToastId, loadingToastShown)
    /\ isProcessing' = FALSE
    /\ inflight' = RemoveAt(inflight, i)
    /\ outcome' = "failure"
    /\ listeners' = Rerendered(listeners)
    /\ UNCHANGED <<input, isExpanded, resizeVars, isVisible, apiKey, ocrText,
                   sent>>

\* fetch resolves with a response: the placeholder is filtered out and the
\* run awaits the body
FetchResolve(i, r) ==
    /\ inflight[i].pc = "fetch"
    /\ messages' = RemovePlaceholder(messages)
    /\ inflight' = [inflight EXCEPT ![i].pc = "body", ![i].response = r]
    /\ listeners' = Rerendered(listeners)
    /\ UNCHANGED <<input, isProcessing, isExpanded, resizeVars, isVisible,
                   apiKey, ocrText, sent, toasts, loadingToastShown, outcome,
                   settled>>

\* fetch rejects: no response
FetchReject(i, m) ==
    /\ inflight[i].pc = "fetch"
    /\ settled' = [how |-> "fetch-reject", status |-> 0]
    /\ CatchFinally(i, m)

\* response.text() resolves for a response that is not ok
ErrorBodyRead(i) ==
    /\ inflight[i].pc = "body"
    /\ ~Ok(inflight[i].response.status)
    /\ LET r == inflight[i].response
           m == NonOkErrorMessage(r.status, r.body)
       IN /\ settled' = [how |-> "response", status |-> r.status]
          /\ CatchFinally(i, m)

\* response.json() resolves for an ok response
JsonBodyRead(i) ==
    /\ inflight[i].pc = "body"
    /\ Ok(inflight[i].response.status)
    /\ inflight[i].response.body.json
    /\ LET r == inflight[i].response
           e == BodyErrorMessage(r.body)
       IN IF e.def
          THEN /\ settled' = [how |-> "response", status |-> r.status]
               /\ CatchFinally(i, e.v)
          ELSE /\ settled' = [how |-> "response", status |-> r.status]
               /\ messages' = AfterSuccess(messages, r.body)
               /\ toasts' = toasts \o
                      ClosingToasts(inflight[i].loadingToastId, "success")
               /\ loadingToastShown' =
                      ShownAfterDismiss(inflight[i].loadingToastId,
                                        loadingToastShown)
               /\ isProcessing' = FALSE
               /\ inflight' = RemoveAt(inflight, i)
               /\ outcome' = "success"
               /\ listeners' = Rerendered(listeners)
               /\ UNCHANGED <<input, isExpanded, resizeVars, isVisible,
                              apiKey, ocrText, sent>>

\* response.json() rejects with a SyntaxError: the body of an ok response
\* is not JSON.  (A body that parses to null throws a TypeError at
\* data.choices and reaches the catch block the same way.)
JsonParseFail(i, m) ==
    /\ inflight[i].pc = "body"
    /\ Ok(inflight[i].response.status)
    /\ ~inflight[i].response.body.json
    /\ settled' = [how |-> "parse-fail",
                   status |-> inflight[i].response.status]
    /\ CatchFinally(i, m)

\* response.text() or response.json() rejects: the transport fails while
\* the body is read
BodyReject(i, m) ==
    /\ inflight[i].pc = "body"
    /\ settled' = [how |-> "body-reject",
                   status |-> inflight[i].response.status]
    /\ CatchFinally(i, m)

(* Panel *)

\* The icon button of the collapsed panel
Expand ==
    /\ isVisible /\ ~isExpanded
    /\ isExpanded' = TRUE
    /\ listeners' = Rerendered(listeners)
    /\ UNCHANGED <<pipelineVars, resizeVars, isVisible, apiKey, ocrText>>

\* A minimize button wired to onToggle
MinimizeCallsToggle ==
    /\ PanelShown
    /\ isVisible' = OnToggle(isVisible)
    /\ isExpanded' = FALSE
    /\ listeners' = Rerendered(listeners)
    /\ UNCHANGED <<pipelineVars, resizeVars, apiKey, ocrText>>

\* The minimize button of the header
Minimize ==
    /\ PanelShown
    /\ isExpanded' = FALSE
    /\ listeners' = Rerendered(listeners)
    /\ UNCHANGED <<pipelineVars, resizeVars, isVisible, apiKey, ocrText>>

\* The overlay behind the expanded panel (small screens)
OverlayClick ==
    /\ PanelShown
    /\ isExpanded' = FALSE
    /\ listeners' = Rerendered(listeners)
    /\ UNCHANGED <<pipelineVars, resizeVars, isVisible, apiKey, ocrText>>

\* The page changes the isVisible prop; the effect on [isVisible] runs
VisibilityChange ==
    /\ isVisible' = OnToggle(isVisible)
    /\ isExpanded' = VisibilityEffect(isVisible', isExpanded)
    /\ listeners' = Rerendered(listeners)
    /\ UNCHANGED <<pipelineVars, resizeVars, apiKey, ocrText>>

\* A close button that also abandons the run in flight
CloseAbortsRun ==
    /\ PanelShown
    /\ isVisible' = OnToggle(isVisible)
    /\ isExpanded' = VisibilityEffect(isVisible', isExpanded)
    /\ listeners' = Rerendered(listeners)
    /\ inflight' = <<>>
    /\ isProcessing' = FALSE
    /\ messages' = RemovePlaceholder(messages)
    /\ UNCHANGED <<input, sent, toasts, loadingToastShown, outcome, settled,
                   resizeVars, apiKey, ocrText>>

\* The close button of the header: onToggle
Close ==
    /\ PanelShown
    /\ VisibilityChange

\* The floating launcher button: onClick
LauncherClick ==
    /\ ocrText # <<>>
    /\ VisibilityChange

(* Resize handle *)

\* handleMouseDown
MouseDown(y) ==
    /\ PanelShown
    /\ isResizing' = TRUE
    /\ startY' = y
    /\ startHeight' = chatHeight
    /\ LET registered ==
               IF \E k \in 1..Len(listeners) : listeners[k].cur
               THEN listeners
               ELSE Append(listeners, [cur |-> TRUE, resizing |-> isResizing])
       IN /\ Len(registered) <= MaxListeners
          /\ listeners' = IF isResizing THEN registered
                          ELSE Rerendered(registered)
    /\ UNCHANGED <<pipelineVars, chatHeight, isExpanded, isVisible, apiKey,
                   ocrText>>

\* mousemove on document: every registered handleMouseMove runs with the
\* isResizing of the render that made it
HeightAfterMove(y) ==
    IF \E k \in 1..Len(listeners) : listeners[k].resizing
    THEN NewHeight(startHeight, startY, y)
    ELSE chatHeight

MouseMove(y) ==
    /\ chatHeight' = HeightAfterMove(y)
    /\ listeners' = IF chatHeight' # chatHeight THEN Rerendered(listeners)
                    ELSE listeners
    /\ UNCHANGED <<pipelineVars, isResizing, startY, startHeight, isExpanded,
                   isVisible, apiKey, ocrText>>

\* Only the handlers of the current render are removed
ListenersAfterCurrentMouseUp(ls) == SelectSeq(ls, LAMBDA l : ~l.cur)

\* The listeners left after a mouseup: every registered handleMouseUp runs
\* and removes the pair it belongs to
ListenersAfterMouseUp(ls) == SelectSeq(ls, LAMBDA l : FALSE)

\* mouseup on document
MouseUp ==
    /\ isResizing' = IF listeners # <<>> THEN FALSE ELSE isResizing
    /\ listeners' = ListenersAfterMouseUp(listeners)
    /\ UNCHANGED <<pipelineVars, chatHeight, startY, startHeight, isExpanded,
                   isVisible, apiKey, ocrText>>

----------------------------------------------------------------------------
(* Specifications *)

\* Every event of the widget, on a small set of texts and responses
Next ==
    \/ \E t \in PanelInputTexts : InputChange(t)
    \/ SubmitIgnored
    \/ SubmitNoKey
    \/ SubmitAccepted
    \/ \E i \in 1..Len(inflight) :
           \E r \in PanelResponses : FetchResolve(i, r)
    \/ \E i \in 1..Len(inflight) :
           \E m \in PanelRejectMessages : FetchReject(i, m)
    \/ \E i \in 1..Len(inflight) : ErrorBodyRead(i)
    \/ \E i \in 1..Len(inflight) : JsonBodyRead(i)
    \/ \E i \in 1..Len(inflight) :
           \E m \in PanelRejectMessages : BodyReject(i, m)
    \/ LoadingToastExpires
    \/ Expand
    \/ Minimize
    \/ OverlayClick
    \/ Close
    \/ LauncherClick
    \/ \E y \in PointerYs : MouseDown(y)
    \/ \E y \in PointerYs : MouseMove(y)
    \/ MouseUp

Spec == Init /\ [][Next]_vars

\* The request pipeline of a widget that is shown for a document with
\* text, on every text and response of the model
InitChat == Init /\ isVisible /\ ocrText # <<>>

NextChat ==
    \/ \E t \in InputTexts : InputChange(t)
    \/ SubmitIgnored
    \/ SubmitNoKey
    \/ SubmitAccepted
    \/ \E i \in 1..Len(inflight) : \E r \in Responses : FetchResolve(i, r)
    \/ \E i \in 1..Len(inflight) : \E m \in RejectMessages : FetchReject(i, m)
    \/ \E i \in 1..Len(inflight) : ErrorBodyRead(i)
    \/ \E i \in 1..Len(inflight) : JsonBodyRead(i)
    \/ \E i \in 1..Len(inflight) :
           \E m \in ParseErrorMessages : JsonParseFail(i, m)
    \/ \E i \in 1..Len(inflight) : \E m \in RejectMessages : BodyReject(i, m)

SpecChat == InitChat /\ [][NextChat]_vars

\* The request pipeline and the visibility controls, with every issued
\* request settling eventually: a pending fetch or body read resolves or
\* rejects
SettleLive ==
    \E i \in 1..Len(inflight) :
        \/ \E r \in PanelResponses : FetchResolve(i, r)
        \/ \E m \in PanelRejectMessages : FetchReject(i, m)
        \/ ErrorBodyRead(i)
        \/ JsonBodyRead(i)
        \/ \E m \in PanelRejectMessages : BodyReject(i, m)

NextLive ==
    \/ \E t \in PanelInputTexts : InputChange(t)
    \/ SubmitIgnored
    \/ SubmitNoKey
    \/ SubmitAccepted
    \/ SettleLive
    \/ Expand
    \/ Minimize
    \/ Close
    \/ LauncherClick

SpecLive == Init /\ [][NextLive]_vars /\ WF_vars(SettleLive)

\* The request pipeline of a shown widget on texts with markup
NextRender ==
    \/ \E t \in RenderInputTexts : InputChange(t)
    \/ SubmitIgnored
    \/ SubmitNoKey
    \/ SubmitAccepted
    \/ \E i \in 1..Len(inflight) :
           \E r \in RenderResponses : FetchResolve(i, r)
    \/ \E i \in 1..Len(inflight) :
           \E m \in PanelRejectMessages : FetchReject(i, m)
    \/ \E i \in 1..Len(inflight) : ErrorBodyRead(i)
    \/ \E i \in 1..Len(inflight) : JsonBodyRead(i)
    \/ \E i \in 1..Len(inflight) :
           \E m \in PanelRejectMessages : BodyReject(i, m)

SpecRender == InitChat /\ [][NextRender]_vars

----------------------------------------------------------------------------
(* Properties *)

Last(seq) == seq[Len(seq)]
NoPlaceholder(msgs) == \A k \in 1..Len(msgs) : msgs[k].content # Sentinel
SubmitStep == SubmitIgnored \/ SubmitNoKey \/ SubmitAccepted
\* Run i ends in this step
Settles(i) == inflight' = RemoveAt(inflight, i)

\* C1: at most one request is issued and not yet settled, whatever the
\* interleaving of submit events, input edits, panel events and network
\* completions.
C1_AtMostOneInFlight == Len(inflight) <= 1

\* A submit event arrived while the only request was in flight
C1_Witness == Len(inflight) = 1 /\ isProcessing /\ outcome = "ignored"

\* C2: from an accepted submission until fetch settles, isProcessing is
\* true, the input is empty and the transcript is the transcript before the
\* submission followed by the user message with the trimmed input and then
\* the placeholder.
C2_SubmitAppendsUserThenPlaceholder ==
    \A i \in 1..Len(inflight) :
        inflight[i].pc = "fetch" =>
            /\ isProcessing
            /\ input = <<>>
            /\ messages = inflight[i].prev \o
                   <<UserMsg(Trim(inflight[i].typed)), AssistantMsg(Sentinel)>>

\* A run awaits fetch for an input that had blanks around the text
C2_Witness ==
    /\ Len(inflight) = 1
    /\ inflight[1].pc = "fetch"
    /\ inflight[1].typed = <<SP, "hi", SP>>
    /\ Len(messages) = Len(inflight[1].prev) + 2

\* C3: a submit event with an input that is empty after trimming, or
\* delivered while isProcessing is true, changes no state and issues no
\* network call.
C3_RejectedSubmitChangesNothing ==
    [][(SubmitStep /\ (Trim(input) = <<>> \/ isProcessing)) =>
          UNCHANGED <<messages, input, isProcessing, isExpanded, chatHeight,
                      inflight, sent, toasts>>]_vars

\* A submit event was ignored for an input of blanks only
C3_Witness ==
    outcome = "ignored" /\ ~isProcessing /\ input # <<>> /\ Trim(input) = <<>>

\* C4: a submit event with a non-empty trimmed input, isProcessing false and
\* no credential shows the configuration-error notification, issues no
\* network call and leaves the transcript, the input and isProcessing as
\* they were.
C4_MissingKeyBlocksSubmit ==
    [][(SubmitStep /\ Trim(input) # <<>> /\ ~isProcessing /\ ~Truthy(apiKey)) =>
          /\ toasts' = <<"config-error">>
          /\ UNCHANGED <<messages, input, isProcessing, inflight, sent>>]_vars

\* The configuration error was shown for a key that is the empty text
C4_Witness ==
    /\ outcome = "nokey"
    /\ apiKey = Some(<<>>)
    /\ toasts = <<"config-error">>
    /\ Trim(input) # <<>>
    /\ sent = <<>>

\* C5: after every settlement isProcessing is false and no transcript entry
\* has the sentinel content.
C5_NoPlaceholderAfterSettlement ==
    (settled.how # "none" /\ inflight = <<>>) =>
        ~isProcessing /\ NoPlaceholder(messages)

\* C6: once a 2xx response with body {choices:[{message:{content:c}}]}, c
\* not blank, has been read, the last transcript entry is the assistant
\* message with content c as received, and it is the only entry appended.
C6_ReplyAppendedUnmodified ==
    [][\A i \in 1..Len(inflight) : \A c \in ReplyTexts :
          (/\ inflight[i].pc = "body"
           /\ Ok(inflight[i].response.status)
           /\ inflight[i].response.body = ReplyBody(c)
           /\ Trim(c) # <<>>
           /\ Settles(i)
           /\ settled'.how = "response") =>
              /\ Last(messages') = AssistantMsg(c)
              /\ messages' = Append(messages, AssistantMsg(c))
              /\ outcome' = "success"
              /\ ~isProcessing']_vars

\* A reply with blanks around the text is the last entry
C6_Witness ==
    /\ outcome = "success"
    /\ settled = [how |-> "response", status |-> 200]
    /\ Last(messages) = AssistantMsg(<<SP, "Hello", SP>>)

\* C7: after a response with status 429 has been read, whatever its body,
\* the last transcript entry is an assistant message containing the
\* rate-limit text and isProcessing is false.
C7_RateLimitText ==
    (settled = [how |-> "response", status |-> 429] /\ inflight = <<>>) =>
        /\ Last(messages).role = "assistant"
        /\ Includes(Last(messages).content, RateLimitText)
        /\ ~isProcessing

\* C8: after a response with status 401 has been read the appended entry
\* contains the authentication-error text, and after one with status 404 it
\* contains the model-unavailable text, whatever the body.
C8_AuthAndNotFoundText ==
    /\ (settled = [how |-> "response", status |-> 401] /\ inflight = <<>>) =>
           Includes(Last(messages).content, AuthErrorText)
    /\ (settled = [how |-> "response", status |-> 404] /\ inflight = <<>>) =>
           Includes(Last(messages).content, ModelUnavailableText)

\* C9: after fetch rejected, whatever the message of the error, the
\* appended entry contains the network-error text.
C9_NetworkErrorText ==
    (settled.how = "fetch-reject" /\ inflight = <<>>) =>
        Includes(Last(messages).content, NetworkErrorText)

\* The body lacks choices, choices[0] or choices[0].message
LacksMessage(b) ==
    \/ ~b.choices.def
    \/ b.choices.v = <<>>
    \/ ~b.choices.v[1].obj
    \/ ~b.choices.v[1].hasMessage
\* The message content is missing, empty or blank
BlankContent(b) ==
    /\ ~LacksMessage(b)
    /\ \/ ~b.choices.v[1].content.def
       \/ Trim(b.choices.v[1].content.v) = <<>>

\* C10: once a 2xx response whose JSON body lacks choices, choices[0] or
\* choices[0].message, or whose message content is empty or blank, has been
\* read, the run has taken the failure path: exactly one entry is appended,
\* the assistant error entry reporting the invalid (resp. empty) response,
\* and the error notification is shown.
C10_MalformedBodyFails ==
    [][\A i \in 1..Len(inflight) :
          (/\ inflight[i].pc = "body"
           /\ Ok(inflight[i].response.status)
           /\ inflight[i].response.body.json
           /\ (LacksMessage(inflight[i].response.body)
               \/ BlankContent(inflight[i].response.body))
           /\ Settles(i)
           /\ settled'.how = "response") =>
              /\ messages' = Append(messages, AssistantMsg(
                     ErrorPrefix \o
                     (IF LacksMessage(inflight[i].response.body)
                      THEN InvalidFormatText ELSE EmptyResponseText)
                     \o RetrySuffix))
              /\ outcome' = "failure"
              /\ Last(toasts') = "error"
              /\ ~isProcessing']_vars

\* A blank reply ended as the empty-response error entry
C10_Witness ==
    /\ outcome = "failure"
    /\ settled = [how |-> "response", status |-> 200]
    /\ Last(messages) =
           AssistantMsg(ErrorPrefix \o EmptyResponseText \o RetrySuffix)
    /\ Last(toasts) = "error"

EndsWith(s, suffix) ==
    /\ Len(s) >= Len(suffix)
    /\ SubSeq(s, Len(s) - Len(suffix) + 1, Len(s)) = suffix

\* C11: a step issues a network call exactly when it accepts a submission,
\* and then exactly one (no step re-issues a request, so nothing is
\* retried); a run that ends on a failure path appends exactly one entry, an
\* assistant entry whose content ends with the retry suggestion.
C11_OneCallOneErrorEntry ==
    [][/\ Len(inflight') > Len(inflight) =>
              /\ Len(sent') = Len(sent) + 1
              /\ Len(inflight') = Len(inflight) + 1
       /\ Len(inflight') <= Len(inflight) => sent' = sent
       /\ (Len(inflight') < Len(inflight) /\ outcome' = "failure") =>
              /\ messages' =
                     Append(RemovePlaceholder(messages), Last(messages'))
              /\ Last(messages').role = "assistant"
              /\ EndsWith(Last(messages').content, RetrySuffix)]_vars

\* The second submission failed while its body was read; two calls were
\* issued in all
C11_Witness ==
    /\ outcome = "failure"
    /\ settled.how = "body-reject"
    /\ Len(sent) = 2
    /\ inflight = <<>>
    /\ EndsWith(Last(messages).content, RetrySuffix)

\* C12: if every issued request settles, every accepted submission is
\* followed by a state where the run has ended in success or failure,
\* isProcessing is false and the input control is enabled.
C12_SubmissionReturnsToIdle ==
    (outcome = "accepted") ~>
        (/\ inflight = <<>>
         /\ ~isProcessing
         /\ ~InputDisabled
         /\ outcome \in {"success", "failure"})

\* The second submission has ended on the failure path and the pipeline
\* is idle
C12_Witness ==
    /\ outcome = "failure"
    /\ Len(sent) = 2
    /\ inflight = <<>>
    /\ ~isProcessing
    /\ ~InputDisabled

\* C13: the transcript is never empty and its first entry is the seeded
\* assistant greeting.
C13_GreetingStaysFirst ==
    /\ Len(messages) >= 1
    /\ messages[1] = AssistantMsg(Greeting)

\* A settlement filtered the transcript (the user message had the sentinel
\* content) and the greeting is still first
C13_Witness ==
    /\ settled.how # "none"
    /\ Len(sent) = 1
    /\ sent[1].body.messages[2].content = Sentinel
    /\ messages[1] = AssistantMsg(Greeting)
    /\ Len(messages) = 2

\* The entries that are not the pending placeholder: while a run awaits
\* fetch the placeholder is the last entry
Permanent(msgs) ==
    IF \E i \in 1..Len(inflight) : inflight[i].pc = "fetch"
    THEN SubSeq(msgs, 1, Len(msgs) - 1)
    ELSE msgs
IsPrefix(a, b) == Len(a) <= Len(b) /\ SubSeq(b, 1, Len(a)) = a

\* C14: apart from the pending placeholder the transcript only grows at
\* its end: every user message, reply and error entry stays, in place,
\* through every later step.
C14_AppendOnly == [][IsPrefix(Permanent(messages), messages')]_vars

\* C15: chatHeight is always an integer between 200 and 600.
C15_HeightWithinBounds ==
    /\ chatHeight \in Int
    /\ chatHeight >= MinHeight
    /\ chatHeight <= MaxHeight

\* A move far above the start position has run into the upper bound
C15_Witness ==
    /\ isResizing
    /\ chatHeight = MaxHeight
    /\ NewHeightUnclamped(startHeight, startY, 0) > MaxHeight

\* C16: in every state of a drag session that started at height h, a
\* pointer move to any position sets the height to h plus the distance
\* above the start position (minus the distance below), clamped to
\* 200..600.
C16_MoveSetsClampedHeight ==
    (isResizing /\ listeners # <<>>) =>
        \A y \in PointerYs :
            HeightAfterMove(y) = Max(MinHeight,
                                     Min(MaxHeight, startHeight + (startY - y)))

\* C17: a pointer-up leaves isResizing false and no listener of any
\* earlier pointer-down registered, and outside a drag session no step
\* (a pointer move in particular) changes the height.
C17_PointerUpEndsSession ==
    [][/\ MouseUp => (~isResizing' /\ listeners' = <<>>)
       /\ (isResizing /\ ~isResizing') => listeners' = <<>>
       /\ ~isResizing =>
              /\ chatHeight' = chatHeight
              /\ \A y \in PointerYs : HeightAfterMove(y) = chatHeight]_vars

\* A session with two pointer-downs has resized the panel and was ended
\* by a pointer-up
C17_Witness ==
    /\ ~isResizing
    /\ listeners = <<>>
    /\ chatHeight # DefaultHeight
    /\ startHeight = DefaultHeight

\* C18: every change of isVisible from false to true leaves the panel
\* expanded, and while isVisible stays true a minimized panel becomes
\* expanded only by the expand button.
C18_AutoExpandOncePerShow ==
    [][/\ (~isVisible /\ isVisible') => isExpanded'
       /\ (isVisible /\ isVisible' /\ ~isExpanded /\ isExpanded') => Expand]_vars

\* The panel is shown and minimized after a run has settled: renders have
\* happened that did not expand it again
C18_Witness ==
    /\ isVisible
    /\ ~isExpanded
    /\ outcome \in {"success", "failure"}
    /\ inflight = <<>>

\* C19: the minimize button and the overlay set isExpanded to false, and
\* a step that takes isExpanded from true to false changes nothing else:
\* isVisible (onToggle is not called), transcript, input, isProcessing,
\* height and the runs in flight stay as they are.
C19_MinimizeOnlyCollapses ==
    [][/\ (Minimize \/ OverlayClick) => (isExpanded /\ ~isExpanded')
       /\ (isExpanded /\ ~isExpanded') =>
              /\ isVisible' = isVisible
              /\ messages' = messages
              /\ input' = input
              /\ isProcessing' = isProcessing
              /\ chatHeight' = chatHeight
              /\ inflight' = inflight
              /\ sent' = sent
              /\ UNCHANGED <<isResizing, toasts>>]_vars

\* The panel was minimized while a run was in flight
C19_Witness ==
    /\ isVisible
    /\ ~isExpanded
    /\ isProcessing
    /\ Len(inflight) = 1
    /\ Len(messages) = 3

\* The user entry the latest accepted submission appended to the transcript
SubmittedUserMsg(msgs) == msgs[Len(msgs) - 1]

\* C21: every request is a POST whose body has exactly two messages, a
\* system message that contains the text of the document and a user
\* message whose content is that of the user entry appended to the
\* transcript by the same submission, the trimmed input; model,
\* temperature and max_tokens are the same in all requests.
C21_RequestShape ==
    [][/\ Len(sent') > Len(sent) =>
              LET req == Last(sent')
                  ms == req.body.messages
              IN /\ req.method = "POST"
                 /\ Len(ms) = 2
                 /\ ms[1].role = "system"
                 /\ Includes(ms[1].content, ocrText)
                 /\ ms[2].role = "user"
                 /\ SubmittedUserMsg(messages').role = "user"
                 /\ ms[2].content = SubmittedUserMsg(messages').content
                 /\ ms[2].content = Trim(input)
       /\ \A i, j \in 1..Len(sent') :
              /\ sent'[i].body.model = sent'[j].body.model
              /\ sent'[i].body.temperature = sent'[j].body.temperature
              /\ sent'[i].body.max_tokens = sent'[j].body.max_tokens]_vars

\* Two requests were issued for a document with text, from inputs with
\* blanks around the word
C21_Witness ==
    /\ Len(sent) = 2
    /\ ocrText # <<>>
    /\ sent[2].body.messages[2].content = <<"hi">>
    /\ \E i \in 1..Len(messages) : messages[i] = UserMsg(<<"hi">>)

\* C22: while a request is in flight the panel controls stay operable;
\* a step that is not a step of the run itself (expand, minimize, resize,
\* close, hide, expiry of the loading toast) leaves the run, isProcessing
\* and the transcript with its placeholder as they are; isProcessing
\* becomes false only when the run settles; and a settlement appends its
\* entry also when the panel is minimized or hidden.
C22_ControlsDoNotTouchRun ==
    [][/\ (isProcessing /\ PanelShown) =>
              /\ ENABLED Minimize
              /\ ENABLED Close
              /\ Len(listeners) < MaxListeners =>
                     \A y \in PointerYs : ENABLED MouseDown(y)
       /\ (isProcessing /\ isVisible /\ ~isExpanded) => ENABLED Expand
       /\ (\/ Expand \/ Minimize \/ OverlayClick \/ Close \/ LauncherClick
           \/ \E y \in PointerYs : MouseDown(y) \/ MouseMove(y)
           \/ MouseUp
           \/ LoadingToastExpires) =>
              /\ inflight' = inflight
              /\ isProcessing' = isProcessing
              /\ messages' = messages
       /\ (isProcessing /\ ~isProcessing') =>
              /\ Len(inflight') = Len(inflight) - 1
              /\ outcome' \in {"success", "failure"}
       /\ Len(inflight') < Len(inflight) =>
              /\ messages' = Append(RemovePlaceholder(messages),
                                    Last(messages'))
              /\ Last(messages').role = "assistant"]_vars

\* The request is still in flight and the placeholder in place after the
\* panel was hidden and the loading toast expired, with a drag session open
C22_Witness ==
    /\ ~isVisible
    /\ isResizing
    /\ isProcessing
    /\ ~loadingToastShown
    /\ Len(inflight) = 1
    /\ inflight[1].pc = "fetch"
    /\ Last(messages) = AssistantMsg(Sentinel)

\* The message the server provides in a body: error.message, else message
\* for a JSON body, the raw body after the HTTP status otherwise
ServerMessage(status, body) ==
    IF body.json
    THEN IF Truthy(body.errMsg) THEN body.errMsg.v ELSE body.msg.v
    ELSE HttpPrefix \o NumToStr(status) \o ColonSpace \o body.text

\* C23: when the body of a response that is not ok and whose status is
\* none of 401, 429, 404 has been read (a JSON body carrying a message,
\* or a body that is not JSON), the appended entry is "Error: " followed
\* by the server's message and the retry suggestion.
C23_GenericErrorForm ==
    [][\A i \in 1..Len(inflight) :
           LET r == inflight[i].response
           IN (/\ inflight[i].pc = "body"
               /\ ~Ok(r.status)
               /\ r.status \notin {401, 429, 404}
               /\ r.body.json => (Truthy(r.body.errMsg) \/ Truthy(r.body.msg))
               /\ Len(inflight') < Len(inflight)
               /\ settled'.how = "response") =>
                  Last(messages') =
                      AssistantMsg(ErrorPrefix
                                   \o ServerMessage(r.status, r.body)
                                   \o RetrySuffix)]_vars

\* C24: a run in flight has made exactly the loading notification, and has
\* its id before the request is awaited; the step that settles the run
\* adds the dismiss of the loading notification and then exactly one
\* closing notification: success exactly when the reply of the response
\* was appended, error exactly when an error entry was appended.
C24_NotificationOrder ==
    [][/\ inflight' # <<>> =>
              /\ toasts' = <<"loading">>
              /\ \A i \in 1..Len(inflight') : inflight'[i].loadingToastId # 0
       /\ Len(inflight') < Len(inflight) =>
              /\ toasts = <<"loading">>
              /\ Len(toasts') = 3
              /\ toasts'[2] = "dismiss"
              /\ toasts'[3] \in {"success", "error"}
              /\ toasts'[3] = "success" <=>
                     /\ outcome' = "success"
                     /\ Last(messages') =
                            AssistantMsg(AiResponse(inflight[1].response.body))
              /\ toasts'[3] = "error" <=>
                     /\ outcome' = "failure"
                     /\ EndsWith(Last(messages').content, RetrySuffix)]_vars

\* The second run ended on a body that is not JSON: loading, dismiss, error
C24_Witness ==
    /\ toasts = <<"loading", "dismiss", "error">>
    /\ settled.how = "parse-fail"
    /\ Len(sent) = 2
    /\ inflight = <<>>

\* C25: during a drag session every step other than a pointer-up
\* (minimize, close or hide, submit, settlement, typing, further
\* pointer-downs and moves) leaves isResizing true and every registered
\* listener pair registered; only a pointer-up ends the session.
C25_SessionEndsOnlyOnPointerUp ==
    [][/\ isResizing => listeners # <<>>
       /\ (isResizing /\ ~MouseUp) =>
              /\ isResizing'
              /\ Len(listeners') >= Len(listeners)
              /\ \A k \in 1..Len(listeners) :
                     listeners'[k].resizing = listeners[k].resizing
       /\ (isResizing /\ ~isResizing') => MouseUp]_vars

\* A session with two pointer-downs is still open after the panel was
\* hidden and a run has failed
C25_Witness ==
    /\ ~isVisible
    /\ isResizing
    /\ Len(listeners) = 2
    /\ chatHeight # DefaultHeight
    /\ outcome = "failure"
    /\ inflight = <<>>

\* C26: whenever isProcessing is true the input is the empty text: the
\* step that sets isProcessing clears it, no step changes it while the
\* control is disabled, and it is empty after every settlement.
C26_InputEmptyWhileProcessing ==
    [][/\ isProcessing' => input' = <<>>
       /\ (~isProcessing /\ isProcessing') => (input # <<>> /\ input' = <<>>)
       /\ isProcessing => input' = input
       /\ Len(inflight') < Len(inflight) => input' = <<>>]_vars

\* A run is in flight for a text that was typed with blanks around it; the
\* input is empty and the text is in the transcript
C26_Witness ==
    /\ isProcessing
    /\ input = <<>>
    /\ Len(inflight) = 1
    /\ inflight[1].typed = <<SP, "hi", SP>>
    /\ messages[Len(messages) - 1] = UserMsg(<<"hi">>)

\* C27: a request depends on the text of the document and the trimmed
\* input only: it has the two messages system and user, its system
\* message is that of every earlier request, and it is identical to every
\* earlier request that was issued for the same input, whatever the
\* conversation in between.
C27_RequestIgnoresHistory ==
    [][Len(sent') > Len(sent) =>
           LET req == Last(sent')
           IN /\ Len(req.body.messages) = 2
              /\ req.body.messages[2].content = Trim(input)
              /\ \A j \in 1..Len(sent) :
                     /\ sent[j].body.messages[1] = req.body.messages[1]
                     /\ sent[j].body.messages[2].content = Trim(input) =>
                            sent[j] = req]_vars

\* The same input was submitted twice, the second time after the first
\* conversation had ended with an error entry: the requests are identical
C27_Witness ==
    /\ Len(sent) = 2
    /\ sent[1] = sent[2]
    /\ Len(messages) >= 4
    /\ messages[2] = messages[4]
    /\ EndsWith(messages[3].content, RetrySuffix)

\* No submitted input and no transcript entry is the sentinel text
SentinelFree ==
    /\ \A j \in 1..Len(sent) : sent[j].body.messages[2].content # Sentinel
    /\ isProcessing \/ NoPlaceholder(messages)

\* Number of settled submissions
SettledCount == Len(sent) - Len(inflight)

\* C28: in a conversation without the sentinel text, whenever isProcessing
\* is false the transcript has 1 + 2n entries for n settled submissions,
\* roles alternating from the greeting on, and the n-th user entry is the
\* input of the n-th request; the step that settles a run appends its
\* reply or error entry right after the user entry of that run.
C28_TranscriptShape ==
    [][/\ (SentinelFree' /\ ~isProcessing') =>
              /\ Len(messages') = 1 + 2 * SettledCount'
              /\ \A k \in 1..Len(messages') :
                     messages'[k].role =
                         IF k % 2 = 1 THEN "assistant" ELSE "user"
              /\ \A j \in 1..SettledCount' :
                     messages'[2 * j].content =
                         sent'[j].body.messages[2].content
       /\ (SentinelFree /\ Len(inflight') < Len(inflight)) =>
              /\ messages'[Len(messages') - 1] =
                     UserMsg(inflight[1].currentInput)
              /\ Last(messages').role = "assistant"
              /\ SubSeq(messages', 1, Len(messages') - 1) =
                     RemovePlaceholder(messages)]_vars

\* Two submissions have settled, the first with a reply and the second
\* with an error entry: five entries
C28_Witness ==
    /\ ~isProcessing
    /\ SentinelFree
    /\ SettledCount = 2
    /\ Len(messages) = 5
    /\ messages[3] = AssistantMsg(<<"Hello">>)
    /\ EndsWith(messages[5].content, RetrySuffix)

\* The bubble shows the content as it is: no element is made of it
DisplayedLiterally(message) ==
    /\ Rendered(message).kind = "html"
    /\ Rendered(message).elements = <<>>
    /\ Rendered(message).text = message.content

\* C20: the content of every user entry of the transcript is displayed
\* as literal text; markup is interpreted only in assistant entries.
C20_UserContentLiteral ==
    \A i \in 1..Len(messages) :
        messages[i].role = "user" => DisplayedLiterally(messages[i])

TypeOK ==
    /\ isProcessing \in BOOLEAN
    /\ chatHeight \in Int
    /\ Len(sent) <= MaxSubmits

====
